---- MODULE Spec2Model ----
(***************************************************************************)
(* Model of app.py: a Streamlit page that, on submission of a query, runs  *)
(* a web search, asks a chat-completion endpoint for research text and     *)
(* then for chart code, and keeps both in st.session_state.                *)
(*                                                                         *)
(* Python values are records [ty, v]: None, a string (v is its sequence of *)
(* text fragments), or Absent for a key that is not in a mapping.          *)
(* A string is empty exactly when v = << >>.                               *)
(***************************************************************************)
EXTENDS Naturals, Sequences, FiniteSets, TLC

\* Number of script runs (page load and reruns) explored in one session.
MaxRuns == 3

\* ------------------------------------------------------------------ values

None == [ty |-> "None", v |-> << >>]
Absent == [ty |-> "absent", v |-> << >>]
Str(s) == [ty |-> "str", v |-> s]
EmptyStr == Str(<< >>)

\* Python truthiness of None / str (`if x:`), as used on lines 62, 81, 218, 235, 243.
Truthy(x) == x.ty = "str" /\ Len(x.v) > 0

\* Python `a or b`.
PyOr(a, b) == IF Truthy(a) THEN a ELSE b

\* dict.get(key, default) / session_state.get(key, default)
GetOr(x, default) == IF x.ty = "absent" THEN default ELSE x

\* What an f-string interpolation {x} renders.
Fmt(x) == IF x.ty = "str" THEN x.v ELSE <<x.ty>>

Contains(x, frag) == x.ty = "str" /\ \E i \in 1..Len(x.v) : x.v[i] = frag

RECURSIVE Join(_, _)
\* sep.join(parts), parts a sequence of strings (fragment sequences)
Join(sep, parts) ==
    IF parts = << >> THEN << >>
    ELSE IF Len(parts) = 1 THEN parts[1]
    ELSE parts[1] \o <<sep>> \o Join(sep, Tail(parts))

Take(s, n) == SubSeq(s, 1, IF Len(s) < n THEN Len(s) ELSE n)

\* ------------------------------------------------------------ environment

\* os.getenv("OPENAI_API_KEY"): unset (None), set to "", or set to a key.
EnvValues == {None, EmptyStr, Str(<<"sk-env">>)}
\* The secrets store: no such secret (Absent) or a key.
SecretValues == {Absent, Str(<<"sk-secret">>)}

\* The values the runs of the page explore: the variable unset or set.
PageEnvValues == {None, Str(<<"sk-env">>)}

\* Variant of ResolveKey: the secrets store is asked first.
ResolveKey_SecretFirst(env, secrets) == PyOr(GetOr(secrets, EmptyStr), env)

\* line 80 / 217: os.getenv(KEY) or st.secrets.get(KEY, "")
ResolveKey(env, secrets) == PyOr(env, GetOr(secrets, EmptyStr))

HTTP_OK == 200
TopicLimit == 3
Statuses == {200, 401, 500}

\* Exceptions requests raises: a timeout or another transport error.
Timeout == <<"Read timed out">>
TransportErrors == { Timeout, <<"Connection refused">> }

\* ---------------------------------------------------------- search client

\* Related-topic entries of the search response: a dict with 'Text', a dict
\* without it (a topic group), or an entry that is not a dict.
TopicA == [isdict |-> TRUE, Text |-> Str(<<"topic a">>)]
TopicNoText == [isdict |-> TRUE, Text |-> Absent]
TopicNotDict == [isdict |-> FALSE, Text |-> Absent]

List(s) == [ty |-> "list", v |-> s]

\* An answer with an abstract and related topics of every kind.
DocFull ==
    [isdict |-> TRUE, AbstractText |-> Str(<<"abstract">>),
     RelatedTopics |-> List(<<TopicNotDict, TopicA, TopicNoText>>)]

\* JSON documents the search endpoint can answer with.
SearchDocs ==
    { [isdict |-> FALSE, AbstractText |-> Absent, RelatedTopics |-> Absent],
      [isdict |-> TRUE, AbstractText |-> Absent, RelatedTopics |-> Absent],
      [isdict |-> TRUE, AbstractText |-> EmptyStr, RelatedTopics |-> List(<< >>)],
      [isdict |-> TRUE, AbstractText |-> Str(<<"abstract">>), RelatedTopics |-> None],
      DocFull,
      [isdict |-> TRUE, AbstractText |-> EmptyStr,
       RelatedTopics |-> List(<<TopicA, TopicA, TopicA, TopicA>>)] }

NoOutcome == [kind |-> "none"]
\* What requests.get (line 56) can end in.
SearchOutcomes ==
    [kind : {"exc"}, status : {0}, json : {"none"}, doc : {Absent}, exc : TransportErrors]
    \cup [kind : {"resp"}, status : Statuses \ {HTTP_OK}, json : {"none"}, doc : {Absent},
          exc : {<< >>}]
    \cup [kind : {"resp"}, status : {HTTP_OK}, json : {"malformed"}, doc : {Absent},
          exc : {<< >>}]
    \cup [kind : {"resp"}, status : {HTTP_OK}, json : {"ok"}, doc : SearchDocs, exc : {<< >>}]

\* The answers of the search endpoint explored by the runs of the page: the
\* GET times out, or answers 200 with an abstract and related topics.
PageSearchOutcomes ==
    { o \in SearchOutcomes :
        \/ o.kind = "exc" /\ o.exc = Timeout
        \/ o.kind = "resp" /\ o.json = "ok" /\ o.doc = DocFull }

\* lines 62-63
SummaryPart(doc) ==
    IF doc.AbstractText.ty # "absent" /\ Truthy(doc.AbstractText)
    THEN << <<"Summary: ">> \o doc.AbstractText.v >>
    ELSE << >>

RECURSIVE RelatedOf(_)
\* lines 66-68, over the topics already cut to the first three
RelatedOf(topics) ==
    IF topics = << >> THEN << >>
    ELSE (IF topics[1].isdict /\ topics[1].Text.ty # "absent"
          THEN << <<"Related: ">> \o Fmt(topics[1].Text) >>
          ELSE << >>) \o RelatedOf(Tail(topics))

\* lines 65-68
RelatedPart(doc) ==
    IF doc.RelatedTopics.ty = "absent" THEN << >>
    ELSE RelatedOf(Take(doc.RelatedTopics.v, TopicLimit))

\* The operations of lines 58-68 that raise: response.json() on a malformed
\* body, `in` on a document that is no container, slicing a non-list.
SearchRaises(o) ==
    \/ o.kind = "exc"
    \/ o.kind = "resp" /\ o.status = HTTP_OK /\ o.json = "malformed"
    \/ o.kind = "resp" /\ o.status = HTTP_OK /\ o.json = "ok"
       /\ (~o.doc.isdict \/ o.doc.RelatedTopics.ty = "None")

\* search_web(query) given how the GET ended
search_web(query, o) ==
    IF SearchRaises(o)
    THEN Str(<<"Web search for '">> \o Fmt(query)
             \o <<"' completed. Manual research may be needed for specific data.">>)
    ELSE IF o.status = HTTP_OK
    THEN LET results == SummaryPart(o.doc) \o RelatedPart(o.doc)
         IN IF results # << >>
            THEN Str(Join("\n\n", results))
            ELSE Str(<<"Basic search completed for: ">> \o Fmt(query))
    ELSE Str(<<"Search completed for: ">> \o Fmt(query)
             \o <<". Please provide more specific terms for better results.">>)

\* ------------------------------------------------------ LLM request wrapper

\* Completion texts the chat endpoint may produce.
Completions == {EmptyStr, Str(<<"text A">>), Str(<<"text B">>)}

\* Bodies of a 200 answer of the chat endpoint: not JSON, JSON without
\* choices[0].message.content, or JSON whose content is null or a string.
ChatOutcomes ==
    [kind : {"exc"}, status : {0}, json : {"none"}, content : {Absent}, exc : TransportErrors]
    \cup [kind : {"resp"}, status : Statuses \ {HTTP_OK}, json : {"none"},
          content : {Absent}, exc : {<< >>}]
    \cup [kind : {"resp"}, status : {HTTP_OK}, json : {"malformed"}, content : {Absent},
          exc : {<< >>}]
    \cup [kind : {"resp"}, status : {HTTP_OK}, json : {"ok"},
          content : {Absent, None} \cup Completions, exc : {<< >>}]

\* The answers of the chat endpoint explored by the runs of the page: the POST
\* times out, is refused with a non-200 status, or answers 200 with content
\* that is null, empty or a text.
PageChatOutcomes ==
    { o \in ChatOutcomes :
        \/ o.kind = "exc" /\ o.exc = Timeout
        \/ o.kind = "resp" /\ o.status = 500
        \/ o.kind = "resp" /\ o.json = "ok" /\ o.content # Absent }

\* line 82
KeyNotFound == Str(<<"OpenAI API ", "key not found", ". Please add it in Streamlit secrets.">>)

\* str(e) of the exception lines 98-107 raise, when they do
ChatExcText(o) ==
    IF o.kind = "exc" THEN o.exc
    ELSE IF o.json = "malformed" THEN <<"Expecting value">>
    ELSE <<"'choices'">>

ChatRaises(o) ==
    \/ o.kind = "exc"
    \/ o.kind = "resp" /\ o.status = HTTP_OK
       /\ (o.json = "malformed" \/ o.content.ty = "absent")

\* Variant of ChatResult: a 200 answer returns the whole message, not its content.
ChatResult_WholeMessage(o) ==
    IF ChatRaises(o) THEN Str(<<"Error calling OpenAI API: ">> \o ChatExcText(o))
    ELSE IF o.status = HTTP_OK
    THEN Str(<<"{'role': 'assistant', 'content': ">> \o Fmt(o.content) \o <<"}">>)
    ELSE Str(<<"API Error: ", ToString(o.status),
               ". Please check your API key and try again.">>)

\* call_openai_api from the answer of the POST onwards (lines 105-112)
ChatResult(o) ==
    IF ChatRaises(o) THEN Str(<<"Error calling OpenAI API: ">> \o ChatExcText(o))
    ELSE IF o.status = HTTP_OK THEN o.content
    ELSE Str(<<"API Error: ", ToString(o.status),
               ". Please check your API key and try again.">>)

\* -------------------------------------------------------------- the page

\* lines 204-210 (the first entries of example_queries)
example_queries ==
    << Str(<<"Top 10 most populated countries bar chart">>),
       Str(<<"UK GDP past 3 years line chart">>) >>

\* Texts the user may type into the query box ("" clears it).
TypedQueries == {EmptyStr, Str(<<"my query">>)}

VARIABLES
    research_data,    \* st.session_state.research_data (Absent before line 45)
    chart_code,       \* st.session_state.chart_code (Absent before line 47)
    selected_query,   \* st.session_state.selected_query (Absent until line 214)
    env_key,          \* the environment variable OPENAI_API_KEY
    secret_key,       \* the secret OPENAI_API_KEY of the secrets store
    pc,               \* position of the script run; "idle" between runs
    event,            \* the widget event that started the current run
    user_query,       \* local user_query of main (line 227)
    search_results,   \* local search_results of research_agent (line 124)
    ui,               \* elements the current run has rendered, in order
    log,              \* external calls of the current run, in order
    run,              \* number of the current script run
    res_run,          \* run that stored research_data (0: none)
    code_run,         \* run that stored chart_code (0: none)
    pre,              \* session state when the current run started
    submitted         \* line 234's button returned True in this run

vars == << research_data, chart_code, selected_query, env_key, secret_key, pc, event,
           user_query, search_results, ui, log, run, res_run, code_run, pre, submitted >>

session == << research_data, chart_code, selected_query >>
credential == << env_key, secret_key >>
locals == << user_query, search_results >>
owners == << res_run, code_run >>

Element(kind, body, owner) == [kind |-> kind, body |-> body, owner |-> owner]
Shown(kind) == \E i \in 1..Len(ui) : ui[i].kind = kind

NoEvent == [kind |-> "none", example |-> 0, typed |-> Absent]

Init ==
    /\ research_data = Absent
    /\ chart_code = Absent
    /\ selected_query = Absent
    /\ env_key \in PageEnvValues
    /\ secret_key \in SecretValues
    /\ pc = "idle"
    /\ event = NoEvent
    /\ user_query = None
    /\ search_results = None
    /\ ui = << >>
    /\ log = << >>
    /\ run = 0
    /\ res_run = 0
    /\ code_run = 0
    /\ pre = << Absent, Absent, Absent >>
    /\ submitted = FALSE

\* A script run starts: the page is rebuilt from the top, locals are fresh.
StartRun(e) ==
    /\ pc = "idle"
    /\ run < MaxRuns
    /\ pc' = "init"
    /\ event' = e
    /\ run' = run + 1
    /\ pre' = session
    /\ ui' = << >>
    /\ log' = << >>
    /\ user_query' = None
    /\ search_results' = None
    /\ submitted' = FALSE
    /\ UNCHANGED << session, credential, owners >>

\* The widgets of lines 227-234 are on the page only when the last run got past st.stop().
FormOnPage == pc = "idle" /\ Shown("success")

\* First run of the session.
PageLoad ==
    /\ run = 0
    /\ StartRun([kind |-> "load", example |-> 0, typed |-> Absent])

\* A rerun with no button pressed: the query box was edited, or the page rerun.
Rerun ==
    /\ run > 0
    /\ \E t \in {Absent} \cup TypedQueries :
          /\ (t # Absent => FormOnPage)
          /\ StartRun([kind |-> "rerun", example |-> 0, typed |-> t])

\* One of the sidebar's example buttons is pressed (line 213).
ClickExample ==
    /\ run > 0
    /\ \E k \in 1..Len(example_queries), t \in {Absent} \cup TypedQueries :
          /\ (t # Absent => FormOnPage)
          /\ StartRun([kind |-> "example", example |-> k, typed |-> t])

\* The Generate button is pressed (line 234), with whatever is in the query box.
ClickGenerate ==
    /\ run > 0
    /\ FormOnPage
    /\ \E t \in {Absent} \cup TypedQueries :
          StartRun([kind |-> "generate", example |-> 0, typed |-> t])

\* lines 44-47
InitSessionState ==
    /\ pc = "init"
    /\ research_data' = GetOr(research_data, None)
    /\ chart_code' = GetOr(chart_code, None)
    /\ pc' = "sidebar"
    /\ UNCHANGED << selected_query, credential, event, locals, ui, log, run, owners, pre,
                    submitted >>

\* lines 195-214
Sidebar ==
    /\ pc = "sidebar"
    /\ selected_query' = IF event.kind = "example" THEN example_queries[event.example]
                         ELSE selected_query
    /\ ui' = Append(ui, Element("sidebar", None, 0))
    /\ pc' = "gate"
    /\ UNCHANGED << research_data, chart_code, credential, event, locals, log, run, owners,
                    pre, submitted >>

\* lines 217-222: no key, the instructions are shown and st.stop() ends the run
CredentialMissing ==
    /\ pc = "gate"
    /\ ~Truthy(ResolveKey(env_key, secret_key))
    /\ ui' = ui \o << Element("error", Str(<<"OpenAI API ", "key not found", "!">>), 0),
                      Element("info", Str(<<"Please add your OpenAI API key in Streamlit secrets:">>), 0),
                      Element("code", Str(<<"OPENAI_API_KEY = \"sk-your-key-here\"">>), 0) >>
    /\ pc' = "idle"
    /\ UNCHANGED << session, credential, event, locals, log, run, owners, pre, submitted >>

\* lines 217-224: a key is there
CredentialPresent ==
    /\ pc = "gate"
    /\ Truthy(ResolveKey(env_key, secret_key))
    /\ ui' = Append(ui, Element("success", None, 0))
    /\ pc' = "input"
    /\ UNCHANGED << session, credential, event, locals, log, run, owners, pre, submitted >>

\* lines 227-231: the query box holds what was typed, else its default
MainInput ==
    /\ pc = "input"
    /\ user_query' = IF event.typed # Absent THEN event.typed
                     ELSE GetOr(selected_query, EmptyStr)
    /\ ui' = Append(ui, Element("text_input", user_query', 0))
    /\ pc' = "button"
    /\ UNCHANGED << session, credential, event, search_results, log, run, owners, pre,
                    submitted >>

\* Variant of PreviousResults: shown when either value is non-empty.
PreviousResults_Either(r, c) ==
    IF Truthy(r) \/ Truthy(c)
    THEN << Element("previous_header", None, 0),
            Element("previous_research", r, res_run'),
            Element("previous_code", c, code_run') >>
    ELSE << >>

\* lines 285-293: the elements of "Previous Results", shown when both values
\* r and c of the session state are non-empty
PreviousResults(r, c) ==
    IF Truthy(r) /\ Truthy(c)
    THEN << Element("previous_header", None, 0),
            Element("previous_research", r, res_run'),
            Element("previous_code", c, code_run') >>
    ELSE << >>

\* lines 234, 285-293: the button was not the widget pressed; the script runs to its end
NoSubmit ==
    /\ pc = "button"
    /\ event.kind # "generate"
    /\ UNCHANGED << session, credential, event, locals, log, run, owners, pre, submitted >>
    /\ ui' = ui \o PreviousResults(research_data, chart_code)
    /\ pc' = "idle"

\* Variant of SubmitEmpty: the results are reset before the query is looked at.
SubmitEmpty_Resets ==
    /\ pc = "button"
    /\ event.kind = "generate"
    /\ ~Truthy(user_query)
    /\ submitted' = TRUE
    /\ research_data' = None
    /\ chart_code' = None
    /\ res_run' = 0
    /\ code_run' = 0
    /\ UNCHANGED << selected_query, credential, event, locals, log, run, pre >>
    /\ ui' = Append(ui, Element("warning", Str(<<"Please enter a query!">>), 0))
    /\ pc' = "idle"

\* lines 234-235, 281-293: pressed with an empty query; the script runs to its end
SubmitEmpty ==
    /\ pc = "button"
    /\ event.kind = "generate"
    /\ ~Truthy(user_query)
    /\ submitted' = TRUE
    /\ UNCHANGED << session, credential, event, locals, log, run, owners, pre >>
    /\ ui' = Append(ui, Element("warning", Str(<<"Please enter a query!">>), 0))
             \o PreviousResults(research_data, chart_code)
    /\ pc' = "idle"

\* Variant of ResetResults: only the chart code is reset.
ResetResults_ChartOnly ==
    /\ research_data' = research_data
    /\ chart_code' = None
    /\ res_run' = res_run
    /\ code_run' = 0

\* lines 237-238
ResetResults ==
    /\ research_data' = None
    /\ chart_code' = None
    /\ res_run' = 0
    /\ code_run' = 0

\* lines 234-238: pressed with a query
SubmitQuery ==
    /\ pc = "button"
    /\ event.kind = "generate"
    /\ Truthy(user_query)
    /\ submitted' = TRUE
    /\ ResetResults
    /\ pc' = "search"
    /\ UNCHANGED << selected_query, credential, event, locals, ui, log, run, pre >>

\* One external call of the run: the search GET or a call of the LLM wrapper.
\* sent: an HTTP request went out; done: the call has returned ret.
Call(op, sent, auth, content) ==
    [op |-> op, sent |-> sent, auth |-> auth, content |-> content, done |-> ~sent,
     outcome |-> NoOutcome, ret |-> IF sent THEN None ELSE KeyNotFound]

Returned(c, o, ret) == [c EXCEPT !.done = TRUE, !.outcome = o, !.ret = ret]

LastCall == log[Len(log)]
SetLast(c) == [log EXCEPT ![Len(log)] = c]

\* line 53: the URL of the GET
SearchUrl(query) ==
    <<"https://api.duckduckgo.com/?q=">> \o Fmt(query) \o <<"&format=json&no_redirect=1">>

\* lines 116-124, 53-56: research_agent starts and search_web issues its GET
SearchRequest ==
    /\ pc = "search"
    /\ ui' = Append(ui, Element("research_working", None, 0))
    /\ log' = Append(log, Call("search", TRUE, << >>, SearchUrl(user_query)))
    /\ pc' = "search_wait"
    /\ UNCHANGED << session, credential, event, locals, run, owners, pre, submitted >>

\* lines 56-74: the GET returns, fails or times out and search_web returns
SearchResponse ==
    /\ pc = "search_wait"
    /\ \E o \in PageSearchOutcomes :
          /\ search_results' = search_web(user_query, o)
          /\ log' = SetLast(Returned(LastCall, o, search_web(user_query, o)))
    /\ pc' = "research_call"
    /\ UNCHANGED << session, credential, event, user_query, ui, run, owners, pre, submitted >>

\* line 144: the user message of research_agent
ResearchPrompt(query, results) ==
    <<"Query: ">> \o Fmt(query) \o <<"\n\nSearch Results: ">> \o Fmt(results)
    \o <<"\n\nPlease provide structured data for visualization.">>

\* line 178: the user message of chart_generator_agent
ChartPrompt(data, query) ==
    <<"Original Query: ">> \o Fmt(query) \o <<"\n\nResearch Data: ">> \o Fmt(data)
    \o <<"\n\nCreate complete Python visualization code.">>

\* lines 80-103: call_openai_api up to the POST; without a key it returns at line 82
WrapperCall(op, content) ==
    LET api_key == ResolveKey(env_key, secret_key)
    IN Call(op, Truthy(api_key), <<"Bearer ">> \o Fmt(api_key), content)

\* Variant of AfterResearch: the code generator is called whatever was returned.
AfterResearch_NoCheck(shown, ret) ==
    /\ research_data' = IF Truthy(ret) THEN ret ELSE research_data
    /\ res_run' = IF Truthy(ret) THEN run ELSE res_run
    /\ UNCHANGED << chart_code, code_run >>
    /\ ui' = shown \o << Element("research_header", None, 0),
                         Element("research", research_data', res_run') >>
    /\ pc' = "chart_call"

\* lines 243-253: main stores and shows what research_agent returned; with
\* nothing stored (line 247) the script runs to its end (lines 285-293)
AfterResearch(shown, ret) ==
    /\ research_data' = IF Truthy(ret) THEN ret ELSE research_data
    /\ res_run' = IF Truthy(ret) THEN run ELSE res_run
    /\ UNCHANGED << chart_code, code_run >>
    /\ IF Truthy(research_data')
       THEN /\ ui' = shown \o << Element("research_header", None, 0),
                              Element("research", research_data', res_run') >>
            /\ pc' = "chart_call"
       ELSE /\ ui' = shown \o PreviousResults(research_data', chart_code')
            /\ pc' = "idle"

\* lines 262-280: what main shows of the stored chart code c
CodeElements(c) ==
    IF Truthy(c)
    THEN << Element("code_header", None, 0),
            Element("code", c, code_run'),
            Element("generated", None, 0),
            Element("info", Str(<<"Copy the code above and run it in your local Python environment.">>), 0),
            Element("download", c, code_run') >>
    ELSE << >>

\* Variant of AfterChart: the returned text is not put into the session state.
AfterChart_Unstored(shown, ret) ==
    /\ UNCHANGED << chart_code, code_run >>
    /\ UNCHANGED << research_data, res_run >>
    /\ ui' = shown \o CodeElements(chart_code') \o PreviousResults(research_data', chart_code')
    /\ pc' = "idle"

\* lines 258-293: main stores and shows what chart_generator_agent returned
\* and the script runs to its end
AfterChart(shown, ret) ==
    /\ chart_code' = IF Truthy(ret) THEN ret ELSE chart_code
    /\ code_run' = IF Truthy(ret) THEN run ELSE code_run
    /\ UNCHANGED << research_data, res_run >>
    /\ ui' = shown \o CodeElements(chart_code') \o PreviousResults(research_data', chart_code')
    /\ pc' = "idle"

\* lines 127-148, 80-103: research_agent calls the wrapper
ResearchCall ==
    /\ pc = "research_call"
    /\ LET c == WrapperCall("research", ResearchPrompt(user_query, search_results))
       IN /\ log' = Append(log, c)
          /\ IF c.sent
             THEN /\ pc' = "research_wait"
                  /\ UNCHANGED << research_data, chart_code, owners, ui >>
             ELSE AfterResearch(ui, c.ret)
    /\ UNCHANGED << selected_query, credential, event, locals, run, pre, submitted >>

\* Variant of ResearchResponse: a call that raised is issued once more.
ResearchResponse_Retries ==
    /\ pc = "research_wait"
    /\ \E o \in PageChatOutcomes :
          /\ log' = SetLast(Returned(LastCall, o, ChatResult(o)))
          /\ IF o.kind = "exc" /\ Len(log) < 3
             THEN /\ pc' = "research_call"
                  /\ UNCHANGED << research_data, chart_code, owners, ui >>
             ELSE AfterResearch(ui, ChatResult(o))
    /\ UNCHANGED << selected_query, credential, event, locals, run, pre, submitted >>

\* lines 98-112, 149: the POST of the research call returns, fails or times out
ResearchResponse ==
    /\ pc = "research_wait"
    /\ \E o \in PageChatOutcomes :
          /\ log' = SetLast(Returned(LastCall, o, ChatResult(o)))
          /\ AfterResearch(ui, ChatResult(o))
    /\ UNCHANGED << selected_query, credential, event, locals, run, pre, submitted >>

\* lines 153-182, 80-103: chart_generator_agent calls the wrapper
ChartCall ==
    /\ pc = "chart_call"
    /\ LET c == WrapperCall("chart", ChartPrompt(research_data, user_query))
       IN /\ log' = Append(log, c)
          /\ IF c.sent
             THEN /\ pc' = "chart_wait"
                  /\ ui' = Append(ui, Element("chart_working", None, 0))
                  /\ UNCHANGED << research_data, chart_code, owners >>
             ELSE AfterChart(Append(ui, Element("chart_working", None, 0)), c.ret)
    /\ UNCHANGED << selected_query, credential, event, locals, run, pre, submitted >>

\* lines 98-112, 183: the POST of the chart call returns, fails or times out
ChartResponse ==
    /\ pc = "chart_wait"
    /\ \E o \in PageChatOutcomes :
          /\ log' = SetLast(Returned(LastCall, o, ChatResult(o)))
          /\ AfterChart(ui, ChatResult(o))
    /\ UNCHANGED << selected_query, credential, event, locals, run, pre, submitted >>

\* The script is blocked (between runs, or inside requests.get / requests.post):
\* the only moments at which time passes for the process environment.
Blocked == pc \in {"idle", "search_wait", "research_wait", "chart_wait"}

\* The deployment's environment variable or secret is set, changed or removed.
SetCredential ==
    /\ Blocked
    /\ env_key' \in PageEnvValues
    /\ secret_key' \in SecretValues
    /\ credential' # credential
    /\ UNCHANGED << session, pc, event, locals, ui, log, run, owners, pre, submitted >>

\* The steps of the script and the answers it waits for.
ScriptStep ==
    \/ InitSessionState
    \/ Sidebar
    \/ CredentialMissing
    \/ CredentialPresent
    \/ MainInput
    \/ NoSubmit
    \/ SubmitEmpty
    \/ SubmitQuery
    \/ SearchRequest
    \/ SearchResponse
    \/ ResearchCall
    \/ ResearchResponse
    \/ ChartCall
    \/ ChartResponse

UserEvent ==
    \/ PageLoad
    \/ Rerun
    \/ ClickExample
    \/ ClickGenerate

Next == UserEvent \/ ScriptStep \/ SetCredential

Spec == Init /\ [][Next]_vars

\* The script runs synchronously and every request carries a timeout
\* (lines 56, 102), so a started run always takes its next step.
FairSpec == Spec /\ WF_vars(ScriptStep)

\* ------------------------------------------- the two clients on their own

\* Queries given to the clients called on their own.
FnQueries == {EmptyStr, example_queries[1], Str(<<"my query">>)}

\* The search client and the LLM wrapper as functions: the query and the
\* credential are drawn here, the answer of the endpoint in the call.
FnInit ==
    /\ research_data = Absent
    /\ chart_code = Absent
    /\ selected_query = Absent
    /\ env_key \in EnvValues
    /\ secret_key \in SecretValues
    /\ pc = "fn"
    /\ event = NoEvent
    /\ user_query \in FnQueries
    /\ search_results = None
    /\ ui = << >>
    /\ log = << >>
    /\ run = 0
    /\ res_run = 0
    /\ code_run = 0
    /\ pre = << Absent, Absent, Absent >>
    /\ submitted = FALSE

\* search_web(user_query), lines 49-74
FnSearch ==
    /\ pc = "fn"
    /\ \E o \in SearchOutcomes :
          /\ search_results' = search_web(user_query, o)
          /\ log' = << Returned(Call("search", TRUE, << >>, SearchUrl(user_query)), o,
                                search_web(user_query, o)) >>
    /\ pc' = "fn_returned"
    /\ UNCHANGED << session, credential, event, user_query, ui, run, owners, pre, submitted >>

\* call_openai_api(messages), lines 76-112, with the messages of either agent
FnChat ==
    /\ pc = "fn"
    /\ \E op \in {"research", "chart"}, o \in ChatOutcomes :
          LET c == WrapperCall(op, IF op = "research"
                                   THEN ResearchPrompt(user_query, Str(<<"results">>))
                                   ELSE ChartPrompt(Str(<<"data">>), user_query))
          IN log' = << IF c.sent THEN Returned(c, o, ChatResult(o)) ELSE c >>
    /\ pc' = "fn_returned"
    /\ UNCHANGED << session, credential, event, locals, ui, run, owners, pre, submitted >>

FnNext == FnSearch \/ FnChat

FnSpec == FnInit /\ [][FnNext]_vars

\* ------------------------------------------------------------ properties

\* The script run has ended (by reaching its last line or by st.stop()).
Done == pc = "idle" /\ run > 0
\* The run ended at st.stop() (line 222).
Halted == Done /\ Shown("error")
PassedGate == Shown("success")
\* Line 234's button returned True with a non-empty query (line 235).
QuerySubmitted == submitted /\ Truthy(user_query)

CallsOf(op) == { i \in 1..Len(log) : log[i].op = op }
Ops == [ i \in 1..Len(log) |-> log[i].op ]
ResultKinds == {"research", "code", "download", "previous_research", "previous_code"}

\* The chat endpoint answered 200 with a non-empty text.
Completed(c) ==
    /\ c.done /\ c.sent
    /\ c.outcome.kind = "resp" /\ c.outcome.status = HTTP_OK /\ c.outcome.json = "ok"
    /\ Truthy(c.outcome.content)

\* The call failed: no credential, a transport error or timeout, or a non-200 answer.
Failed(c) ==
    /\ c.done
    /\ \/ ~c.sent
       \/ c.outcome.kind = "exc"
       \/ c.outcome.kind = "resp" /\ c.outcome.status # HTTP_OK

IsErrorString(x) ==
    \/ Contains(x, "key not found")
    \/ Contains(x, "API Error: ")
    \/ Contains(x, "Error calling OpenAI API: ")

\* C1: in every state of a session, a stored chart code comes with a stored
\* non-empty research text of the same submission, and the code generator is
\* called only after the research call of the current submission returned a
\* non-empty text that was stored.
C1_CodeOnlyAfterResearch ==
    /\ Truthy(chart_code) =>
          /\ Truthy(research_data)
          /\ code_run = res_run
          /\ code_run >= 1
    /\ \A i \in CallsOf("chart") :
          /\ i > 1
          /\ log[i-1].op = "research"
          /\ log[i-1].done
          /\ Truthy(log[i-1].ret)
          /\ research_data = log[i-1].ret
          /\ res_run = run

\* A later submission has produced a chart code, replacing an earlier one.
C1_Witness ==
    /\ Done /\ QuerySubmitted
    /\ Truthy(pre[2])
    /\ Truthy(chart_code) /\ code_run = run

\* C2: once a non-empty query is submitted, both stored values are empty
\* before any call is issued, and from then on whatever is stored or shown
\* was produced by the current run, whatever its calls answer.
C2_ResetBeforeCalls ==
    QuerySubmitted =>
       /\ log = << >> => research_data = None /\ chart_code = None
       /\ research_data = None \/ (Truthy(research_data) /\ res_run = run)
       /\ chart_code = None \/ (Truthy(chart_code) /\ code_run = run)
       /\ \A i \in 1..Len(ui) : ui[i].kind \in ResultKinds => ui[i].owner = run

\* A run that replaced both earlier values and whose research call gave nothing.
C2_Witness ==
    /\ Done /\ QuerySubmitted
    /\ Truthy(pre[1]) /\ Truthy(pre[2])
    /\ research_data = None /\ chart_code = None
    /\ Len(log) = 2

\* C3: submitting an empty query leaves the stored research text and chart
\* code as they were, issues no search and no chat request, and shows a warning.
C3_EmptySubmission ==
    (submitted /\ ~Truthy(user_query)) =>
       /\ research_data = pre[1]
       /\ chart_code = pre[2]
       /\ log = << >>
       /\ Shown("warning")

\* An empty submission while both values of an earlier run are stored.
C3_Witness ==
    /\ Done /\ submitted /\ ~Truthy(user_query)
    /\ Truthy(research_data) /\ Truthy(chart_code)
    /\ Shown("previous_code")

\* C4: in a run that finds no credential, the instructions are shown and no
\* user action of that run changes the session state or causes a request.
C4_GateFreezesSession ==
    (Halted /\ event.kind # "load") =>
       /\ Shown("info")
       /\ session = pre
       /\ log = << >>

\* C5: a call of the wrapper without a credential (variable unset or empty,
\* no secret) sends no request and returns a text saying the key was not
\* found; a set variable is the key that is sent, whatever the secret is.
C5_KeyResolution ==
    \A i \in CallsOf("research") \cup CallsOf("chart") :
       /\ (~Truthy(env_key) /\ ~Truthy(GetOr(secret_key, EmptyStr))) =>
             /\ ~log[i].sent
             /\ log[i].outcome = NoOutcome
             /\ log[i].done
             /\ Contains(log[i].ret, "key not found")
       /\ Truthy(env_key) =>
             /\ log[i].sent
             /\ log[i].auth = <<"Bearer ">> \o env_key.v
       /\ (~Truthy(env_key) /\ Truthy(GetOr(secret_key, EmptyStr))) =>
             /\ log[i].sent
             /\ log[i].auth = <<"Bearer ">> \o secret_key.v

\* The wrapper was called with the variable set to "" and no secret.
C5_Witness ==
    /\ pc = "fn_returned"
    /\ env_key = EmptyStr /\ secret_key = Absent
    /\ Len(log) = 1 /\ log[1].op = "chart" /\ ~log[1].sent

\* The answer of the chat endpoint is one of the failures: a transport error
\* or timeout, a non-200 status, a body that is no JSON or has no string at
\* choices[0].message.content.
ChatFailure(o) ==
    \/ o.kind = "exc"
    \/ o.kind = "resp" /\ o.status # HTTP_OK
    \/ o.kind = "resp" /\ o.status = HTTP_OK /\ (o.json = "malformed" \/ o.content.ty # "str")

\* C6: whatever the external call ends in, the search client and the wrapper
\* return a non-empty string; the wrapper's string carries the status code of
\* a non-200 answer and the text of an exception.
C6_AlwaysNonEmptyString ==
    \A i \in 1..Len(log) :
       log[i].done =>
          /\ log[i].op = "search" => Truthy(log[i].ret)
          /\ (log[i].op # "search" /\ (~log[i].sent \/ ChatFailure(log[i].outcome))) =>
                Truthy(log[i].ret)
          /\ (log[i].op # "search" /\ log[i].sent /\ log[i].outcome.kind = "resp"
              /\ log[i].outcome.status # HTTP_OK) =>
                Contains(log[i].ret, ToString(log[i].outcome.status))
          /\ (log[i].op # "search" /\ log[i].sent /\ log[i].outcome.kind = "exc") =>
                \E k \in 1..Len(log[i].ret.v) : <<log[i].ret.v[k]>> = log[i].outcome.exc

\* C7 as stated: after a run whose code-generation call failed, only the
\* research text is stored and the stored chart code is empty.
C7_FailedGenerationLeavesNoCode ==
    \A i \in CallsOf("chart") :
       (Done /\ Failed(log[i])) => Truthy(research_data) /\ ~Truthy(chart_code)

\* C7 amended: after a run whose code-generation call failed, the research
\* text of the run is stored and the wrapper's error string is stored and
\* shown as the chart code; the chart code is empty with the research text
\* stored only when the call returned no text.
C7_FailedGenerationStoresError ==
    \A i \in CallsOf("chart") :
       Done =>
          /\ Truthy(research_data) /\ res_run = run
          /\ Failed(log[i]) =>
                /\ IsErrorString(log[i].ret)
                /\ chart_code = log[i].ret
                /\ code_run = run
                /\ \E k \in 1..Len(ui) : ui[k].kind = "code" /\ ui[k].body = log[i].ret
          /\ ~Truthy(chart_code) <=> ~Truthy(log[i].ret)
          /\ ~Truthy(chart_code) => chart_code = None /\ ~Failed(log[i])

\* Research answered, then the code-generation call got a non-200 answer.
C7_Witness ==
    /\ Done /\ Len(log) = 3
    /\ Completed(log[2])
    /\ log[3].sent /\ log[3].outcome.kind = "resp" /\ log[3].outcome.status # HTTP_OK
    /\ Truthy(chart_code)

\* C8: in a run whose two chat calls both answer 200 with a non-empty text,
\* a non-empty search text, the research text and the code text are produced
\* in this order, the research text is the first completion, the code text the
\* second, and the download offers exactly the shown and stored code.
C8_SuccessfulRun ==
    (Done /\ Len(log) = 3 /\ Completed(log[2]) /\ Completed(log[3])) =>
       /\ QuerySubmitted
       /\ Ops = <<"search", "research", "chart">>
       /\ Truthy(log[1].ret)
       /\ log[2].ret = log[2].outcome.content
       /\ research_data = log[2].outcome.content
       /\ log[3].ret = log[3].outcome.content
       /\ chart_code = log[3].outcome.content
       /\ res_run = run /\ code_run = run
       /\ \E r, c, d \in 1..Len(ui) :
             /\ r < c /\ c < d
             /\ ui[r].kind = "research" /\ ui[r].body = research_data
             /\ ui[c].kind = "code" /\ ui[c].body = chart_code
             /\ ui[d].kind = "download" /\ ui[d].body = ui[c].body
             /\ \A k \in 1..Len(ui) : ui[k].kind \in {"code", "download"} => k \in {c, d}

\* Both calls answered, with different texts.
C8_Witness ==
    /\ Done /\ Len(log) = 3 /\ Completed(log[2]) /\ Completed(log[3])
    /\ research_data # chart_code
    /\ Shown("download")

\* C9 as stated: every submission of a non-empty query makes exactly one
\* search request, one research call and one code-generation call.
C9_ExactlyOneOfEach ==
    (Done /\ QuerySubmitted) =>
       /\ Cardinality(CallsOf("search")) = 1
       /\ Cardinality(CallsOf("research")) = 1
       /\ Cardinality(CallsOf("chart")) = 1

\* The calls of a submission: the search, the research call on its output
\* and, when that returned a non-empty text, the code-generation call on it;
\* each is issued once, after the one before it has returned, and a returned
\* string, error or not, is stored and shown as it is.
C9_Linear ==
    QuerySubmitted =>
       /\ Ops = SubSeq(<<"search", "research", "chart">>, 1, Len(log))
       /\ \A i \in 1..Len(log) : i < Len(log) => log[i].done
       /\ Len(log) >= 1 => log[1].sent /\ log[1].content = SearchUrl(user_query)
       /\ Len(log) >= 2 =>
             /\ log[2].content = <<"Query: ">> \o user_query.v \o <<"\n\nSearch Results: ">>
                                 \o log[1].ret.v
                                 \o <<"\n\nPlease provide structured data for visualization.">>
             /\ (log[2].done /\ Truthy(log[2].ret)) =>
                   /\ research_data = log[2].ret
                   /\ \E k \in 1..Len(ui) : ui[k].kind = "research" /\ ui[k].body = log[2].ret
       /\ Len(log) >= 3 =>
             /\ Truthy(log[2].ret)
             /\ log[3].content = <<"Original Query: ">> \o user_query.v \o <<"\n\nResearch Data: ">>
                                 \o log[2].ret.v
                                 \o <<"\n\nCreate complete Python visualization code.">>
             /\ (log[3].done /\ Truthy(log[3].ret)) =>
                   /\ chart_code = log[3].ret
                   /\ \E k \in 1..Len(ui) : ui[k].kind = "code" /\ ui[k].body = log[3].ret
       /\ Done => /\ Len(log) \in {2, 3}
                  /\ log[Len(log)].done
                  /\ Len(log) = 3 <=> Truthy(log[2].ret)

\* C9 amended: a submission of a non-empty query makes exactly one search
\* request, then exactly one research call on the search output, then, if
\* that call returned a non-empty text (an error string included), exactly one
\* code-generation call on it and otherwise none; no call is issued twice,
\* returned strings are stored and shown as they are, and every run ends.
C9_LinearAndTerminates ==
    /\ []C9_Linear
    /\ [](pc # "idle" => <>Done)

\* A research error string was handed to the code generator.
C9_Witness ==
    /\ Done /\ QuerySubmitted /\ Len(log) = 3
    /\ Failed(log[2])
    /\ Contains(research_data, "API Error: ")
    /\ log[3].sent /\ log[3].done

\* C10: at the end of a run that got past the credential check, "Previous
\* Results" is shown exactly when both stored values are non-empty; a stored
\* research text without chart code is shown in the run that produced it and
\* in no later run.
C10_PreviousResults ==
    (Done /\ PassedGate) =>
       /\ Shown("previous_header") <=> (Truthy(research_data) /\ Truthy(chart_code))
       /\ Shown("previous_research") <=> Shown("previous_header")
       /\ Shown("previous_code") <=> Shown("previous_header")
       /\ (Truthy(research_data) /\ ~Truthy(chart_code)) =>
             ((\E k \in 1..Len(ui) : ui[k].body = research_data) <=> res_run = run)

\* A later run without submission, with only a research text stored.
C10_Witness ==
    /\ Done /\ PassedGate /\ ~submitted
    /\ Truthy(research_data) /\ ~Truthy(chart_code)
    /\ res_run < run

====
